---------------------------- MODULE Spec2Model ----------------------------
(***************************************************************************)
(* A model of the term-prediction subsystem of the negotiation package:    *)
(* negotiation/models/predictor.py (TermPredictor), the encoders of        *)
(* negotiation/data/transforms.py and the loader of                        *)
(* negotiation/data/loaders.py.                                            *)
(*                                                                         *)
(* Numbers.  Probabilities and scores are kept as integers in thousandths  *)
(* (0.78 is 780); feature values are kept in halves (the value v is 2*v),  *)
(* so that the median of an even number of integers stays an integer.      *)
(* Text is a sequence of one-character strings, so that lower(), strip(),  *)
(* the digit search and the substring test are computed, not looked up.    *)
(***************************************************************************)
EXTENDS Integers, Sequences, FiniteSets, TLC

(***************************************************************************)
(* Bounds of the model.                                                    *)
(***************************************************************************)
\* Longest corpus file, in rows.
MaxRows == 2
\* Largest number of keys of a known_terms mapping.
MaxKnown == 2
\* Trees per forest (the constructor's n_estimators argument).
NEstimators == 3

(***************************************************************************)
(* The column taxonomy (class attributes of TermPredictor).                *)
(***************************************************************************)
BINARY_COLUMNS ==
    << "Change Of Control", "Anti-Assignment", "Revenue/Profit Sharing",
       "Ip Ownership Assignment", "Non-Transferable License",
       "Post-Termination Services", "Audit Rights", "Cap On Liability" >>

ORDINAL_COLUMNS == << "Renewal Term Bucket" >>

INPUT_ONLY_COLUMNS == << "Notice Period Bucket" >>

TERM_COLUMNS == BINARY_COLUMNS \o ORDINAL_COLUMNS

FEATURE_COLUMNS == BINARY_COLUMNS \o ORDINAL_COLUMNS \o INPUT_ONLY_COLUMNS

\* lambda x: 1 - x, the transform of 'Uncapped Liability'.
TransformIdentity(x) == x
transform_fn(x) == 1 - x

\* derived column -> source column (the transform is transform_fn).
DERIVED_COLUMNS == << [derived |-> "Uncapped Liability", source |-> "Cap On Liability"] >>

Range(s) == { s[i] : i \in 1..Len(s) }

TermSet == Range(TERM_COLUMNS)
FeatureSet == Range(FEATURE_COLUMNS)
DerivedSet == { DERIVED_COLUMNS[i].derived : i \in 1..Len(DERIVED_COLUMNS) }

\* The raw columns of the corpus file that fit() reads.
RENEWAL_RAW == "Renewal Term (Days)"
NOTICE_RAW == "Notice Period To Terminate Renewal"
RawColumns == Range(BINARY_COLUMNS) \cup {RENEWAL_RAW, NOTICE_RAW}

(***************************************************************************)
(* Text.                                                                   *)
(***************************************************************************)
UpperAlpha == << "A","B","C","D","E","F","G","H","I","J","K","L","M",
                 "N","O","P","Q","R","S","T","U","V","W","X","Y","Z" >>
LowerAlpha == << "a","b","c","d","e","f","g","h","i","j","k","l","m",
                 "n","o","p","q","r","s","t","u","v","w","x","y","z" >>
DigitChars == << "0","1","2","3","4","5","6","7","8","9" >>

IsDigit(c) == \E i \in 1..Len(DigitChars) : DigitChars[i] = c
DigitVal(c) == (CHOOSE i \in 1..Len(DigitChars) : DigitChars[i] = c) - 1

LowerChar(c) ==
    IF \E i \in 1..Len(UpperAlpha) : UpperAlpha[i] = c
    THEN LowerAlpha[CHOOSE i \in 1..Len(UpperAlpha) : UpperAlpha[i] = c]
    ELSE c

\* str.lower()
Lower(s) == [ i \in 1..Len(s) |-> LowerChar(s[i]) ]

\* str.strip()
RECURSIVE Strip(_)
Strip(s) ==
    IF s = << >> THEN s
    ELSE IF Head(s) = " " THEN Strip(Tail(s))
    ELSE IF s[Len(s)] = " " THEN Strip(SubSeq(s, 1, Len(s) - 1))
    ELSE s

\* sub in s
Contains(s, sub) ==
    \E i \in 1..(Len(s) - Len(sub) + 1) : SubSeq(s, i, i + Len(sub) - 1) = sub

\* int() of a run of digits
RECURSIVE DigitsToInt(_, _)
DigitsToInt(s, acc) ==
    IF s = << >> THEN acc ELSE DigitsToInt(Tail(s), 10 * acc + DigitVal(Head(s)))

HasDigit(s) == \E i \in 1..Len(s) : IsDigit(s[i])

\* re.findall(r'\d+', s)[0]: the first maximal run of digits (s has a digit).
FirstDigitRun(s) ==
    LET first == CHOOSE i \in 1..Len(s) :
                    IsDigit(s[i]) /\ \A j \in 1..(i - 1) : ~IsDigit(s[j])
        last == CHOOSE j \in first..Len(s) :
                    /\ \A k \in first..j : IsDigit(s[k])
                    /\ (j = Len(s) \/ ~IsDigit(s[j + 1]))
    IN SubSeq(s, first, last)

\* Text that is an integer literal: an optional sign and digits.
IsIntText(s) ==
    LET body == IF s # << >> /\ Head(s) = "-" THEN Tail(s) ELSE s
    IN body # << >> /\ \A i \in 1..Len(body) : IsDigit(body[i])

IntOfText(s) ==
    IF Head(s) = "-" THEN 0 - DigitsToInt(Tail(s), 0) ELSE DigitsToInt(s, 0)

(***************************************************************************)
(* Cells of a table: missing (NaN / None), a number, or a string.          *)
(***************************************************************************)
NaN == [k |-> "nan", n |-> 0, s |-> << >>]
Num(x) == [k |-> "num", n |-> x, s |-> << >>]
Str(t) == [k |-> "str", n |-> 0, s |-> t]

\* pd.isna(val)
IsNa(c) == c.k = "nan"
\* isinstance(val, str)
IsStr(c) == c.k = "str"



(***************************************************************************)
(* The corpus file and its loader (pandas.read_csv with sep = TAB).        *)
(* A file either does not exist or holds rows of text cells, one per raw   *)
(* column; the empty text is an empty cell.                                *)
(***************************************************************************)
\* read_csv's type inference: a column all of whose non-empty cells are
\* integer literals is numeric; any other column holds strings (dtype object).
IsNumericColumn(rows, col) ==
    \A i \in 1..Len(rows) : rows[i][col] = << >> \/ IsIntText(rows[i][col])

ReadCell(rows, i, col) ==
    IF rows[i][col] = << >> THEN NaN
    ELSE IF IsNumericColumn(rows, col) THEN Num(IntOfText(rows[i][col]))
    ELSE Str(rows[i][col])

\* load_cuad_data: the DataFrame of the file (the caller handles a missing file).
load_cuad_data(file) ==
    [ i \in 1..Len(file.rows) |-> [ col \in RawColumns |-> ReadCell(file.rows, i, col) ] ]

(***************************************************************************)
(* transforms.py                                                           *)
(***************************************************************************)
TextYes == << "y", "e", "s" >>
TextNo == << "n", "o" >>
TextYear == << "y", "e", "a", "r" >>

\* df[col].dtype == 'object'
IsObjectColumn(df, col) == \E i \in 1..Len(df) : IsStr(df[i][col])

\* set(df[col].dropna().str.lower().unique()).issubset({'yes', 'no', ''})
IsYesNoColumn(df, col) ==
    \A i \in 1..Len(df) :
        IsStr(df[i][col]) => Lower(df[i][col].s) \in { TextYes, TextNo, << >> }

\* lambda x: 1 if str(x).lower() == 'yes' else (0 if str(x).lower() == 'no' else None)
EncodeYesNo(c) ==
    IF IsStr(c) /\ Lower(c.s) = TextYes THEN Num(1)
    ELSE IF IsStr(c) /\ Lower(c.s) = TextNo THEN Num(0)
    ELSE NaN

ShouldEncode(df, col) == IsObjectColumn(df, col) /\ IsYesNoColumn(df, col)

encode_boolean_columns(df) ==
    [ i \in 1..Len(df) |->
        [ col \in DOMAIN df[i] |->
            IF ShouldEncode(df, col) THEN EncodeYesNo(df[i][col]) ELSE df[i][col] ] ]

\* Thresholds of bucket_renewal_term, in days.
OneYearDays == 365
ThreeYearsDays == 1095
\* Thresholds of bucket_notice_period, in days.
ShortNoticeDays == 30
StandardNoticeDays == 90

\* 'year' in val if isinstance(val, str) else False
\* (evaluated after val = int(nums[0]), so val is the integer here)
MentionsYear(val) == IF IsStr(val) THEN Contains(val.s, TextYear) ELSE FALSE

RenewalThresholds(v) ==
    IF v <= 0 THEN 0
    ELSE IF v < OneYearDays THEN 1
    ELSE IF v = OneYearDays THEN 2
    ELSE IF v <= ThreeYearsDays THEN 3
    ELSE 4

\* bucket_renewal_term.bucket
RenewalBucket(val) ==
    IF IsNa(val) THEN 0
    ELSE IF IsStr(val)
    THEN LET text == Strip(Lower(val.s))
         IN IF HasDigit(text)
            THEN LET first == Num(DigitsToInt(FirstDigitRun(text), 0))
                     days == IF MentionsYear(first) THEN first.n * OneYearDays
                             ELSE first.n
                 IN RenewalThresholds(days)
            ELSE 0
    ELSE RenewalThresholds(val.n)

bucket_renewal_term(df) ==
    [ i \in 1..Len(df) |->
        [ col \in DOMAIN df[i] \cup {"Renewal Term Bucket"} |->
            IF col = "Renewal Term Bucket" THEN Num(RenewalBucket(df[i][RENEWAL_RAW]))
            ELSE df[i][col] ] ]

NoticeThresholds(v) ==
    IF v <= 0 THEN 0
    ELSE IF v <= ShortNoticeDays THEN 1
    ELSE IF v <= StandardNoticeDays THEN 2
    ELSE 3

\* bucket_notice_period.bucket; float(val) raises ValueError on text that is no number
NoticeBucket(val) ==
    IF IsNa(val) THEN 0
    ELSE IF IsStr(val)
    THEN IF IsIntText(Strip(val.s)) THEN NoticeThresholds(IntOfText(Strip(val.s)))
         ELSE 0
    ELSE NoticeThresholds(val.n)

bucket_notice_period(df) ==
    [ i \in 1..Len(df) |->
        [ col \in DOMAIN df[i] \cup {"Notice Period Bucket"} |->
            IF col = "Notice Period Bucket" THEN Num(NoticeBucket(df[i][NOTICE_RAW]))
            ELSE df[i][col] ] ]

(***************************************************************************)
(* DataFrame helpers used by fit().                                        *)
(***************************************************************************)
\* df[cols]
Project(df, cols) == [ i \in 1..Len(df) |-> [ col \in cols |-> df[i][col] ] ]

\* A dropna that drops nothing.
dropnaNothing(df) == df

\* df.dropna(): the rows without a missing cell, in order
RECURSIVE dropna(_)
dropna(df) ==
    IF df = << >> THEN << >>
    ELSE IF \E col \in DOMAIN Head(df) : IsNa(Head(df)[col])
         THEN dropna(Tail(df))
         ELSE << Head(df) >> \o dropna(Tail(df))

\* Lines 88-99 of fit(): the Working Table of a corpus file.
WorkingTable(file) ==
    dropna(Project(bucket_notice_period(bucket_renewal_term(
               encode_boolean_columns(load_cuad_data(file)))), FeatureSet))

\* A table sklearn can train on: every cell is a number.
IsNumericTable(tbl) ==
    \A i \in 1..Len(tbl) : \A col \in DOMAIN tbl[i] : tbl[i][col].k = "num"

(***************************************************************************)
(* Arithmetic helpers.                                                     *)
(***************************************************************************)
RECURSIVE SeqSum(_)
SeqSum(s) == IF s = << >> THEN 0 ELSE Head(s) + SeqSum(Tail(s))

RECURSIVE SeqProd(_)
SeqProd(s) == IF s = << >> THEN 1 ELSE Head(s) * SeqProd(Tail(s))

\* The elements of a finite set of integers, ascending (np.unique).
RECURSIVE Ascending(_)
Ascending(S) ==
    IF S = {} THEN << >>
    ELSE LET m == CHOOSE x \in S : \A y \in S : x <= y
         IN << m >> \o Ascending(S \ {m})

\* round(num / den, 3) in thousandths, for num >= 0 and den > 0
\* (a tie rounds up; Python rounds the nearest binary float to even).
Round3(num, den) == (2000 * num + den) \div (2 * den)

\* round(num / den, 3) in thousandths for a numerator of either sign
Round3Signed(num, den) ==
    IF num >= 0 THEN Round3(num, den) ELSE 0 - Round3(0 - num, den)

(***************************************************************************)
(* The classifier.  sklearn's RandomForestClassifier is a library outside  *)
(* the repository; the model keeps what the predictor relies on: a fitted  *)
(* forest is a function of its training set, the number of trees and the   *)
(* seed; classes_ are the distinct labels seen in training, ascending;     *)
(* every tree votes for a label of the training set; predict_proba is the  *)
(* share of the votes and predict the first class with the largest share.  *)
(***************************************************************************)
\* A feature value that is missing (the median of an empty column), in halves.
NanHalf == -1

\* X = self.data[feature_cols].values
ValuesX(tbl, feature_cols) ==
    [ i \in 1..Len(tbl) |-> [ j \in 1..Len(feature_cols) |-> tbl[i][feature_cols[j]].n ] ]

\* y = self.data[target_col].values.astype(int)
ValuesY(tbl, target) == [ i \in 1..Len(tbl) |-> tbl[i][target].n ]

\* Feature columns that keep the target among them.
FeatureColsAll(target) == FEATURE_COLUMNS

\* feature_cols = [c for c in self.FEATURE_COLUMNS if c != target_col]
FeatureCols(target) == SelectSeq(FEATURE_COLUMNS, LAMBDA c : c # target)

\* RandomForestClassifier(n_estimators, random_state, ...).fit(X, y), with the
\* feature_cols stored beside it
Train(target, tbl, n, seed) ==
    [ feature_cols |-> FeatureCols(target),
      X |-> ValuesX(tbl, FeatureCols(target)),
      y |-> ValuesY(tbl, target),
      n_estimators |-> n,
      random_state |-> seed ]

\* model.classes_
Classes(m) == Ascending(Range(m.y))

RECURSIVE WeightedSum(_, _)
WeightedSum(x, j) ==
    IF j > Len(x) THEN 0 ELSE j * x[j] + WeightedSum(x, j + 1)

\* The votes of the trees on the feature vector x.  Tree t votes the label
\* of the training row its seeded bootstrap and its splits lead x to.
ForestVotes(m, x) ==
    LET h == WeightedSum(x, 1)
    IN [ t \in 1..m.n_estimators |->
           m.y[((m.random_state + 31 * t + h) % Len(m.y)) + 1] ]

\* n_estimators * predict_proba(X)[0][class c]
Votes(fv, c) == Cardinality({ t \in DOMAIN fv : fv[t] = c })

\* model.predict(X)[0]: np.argmax takes the first of the largest shares
PredictClass(m, fv) ==
    LET cls == Classes(m)
        count == [ i \in 1..Len(cls) |-> Votes(fv, cls[i]) ]
        best == CHOOSE i \in 1..Len(cls) :
                    /\ \A j \in 1..Len(cls) : count[j] <= count[i]
                    /\ \A j \in 1..(i - 1) : count[j] < count[i]
    IN cls[best]

\* model.feature_importances_, as weights before normalisation: a feature
\* that is constant over the training set is never split on.
FeatureWeight(m, j) ==
    LET varies == \E i \in 1..Len(m.X) : m.X[i][j] # m.X[1][j]
    IN IF varies THEN 1 + ((m.random_state + j) % 3) ELSE 0

(***************************************************************************)
(* The state of the program: predictor instances and the call in progress. *)
(***************************************************************************)
VARIABLES
    n_estimators,   \* self.n_estimators of each instance
    random_state,   \* self.random_state
    models,         \* self.models: target column -> fitted forest
    data,           \* self.data: None or the Working Table
    is_fitted,      \* self._is_fitted
    last_fit,       \* history: how the latest fit() call on the instance ended
    ret             \* the call that has just ended and what it gave the caller

vars == << n_estimators, random_state, models, data, is_fitted, last_fit, ret >>

Instances == {1, 2}

\* __init__'s default random_state, and another seed a caller may pass.
DefaultSeed == 42
Seeds == {DefaultSeed, 7}

EmptyMap == [ c \in {} |-> 0 ]

\* self.data = None
NoData == [loaded |-> FALSE, rows |-> << >>]
Loaded(tbl) == [loaded |-> TRUE, rows |-> tbl]

NoFile == [exists |-> FALSE, rows |-> << >>]

NeverFit == [status |-> "never", file |-> NoFile]

NoRet ==
    [ op |-> "none", inst |-> 0, known |-> EmptyMap, accepts_nan |-> TRUE, cv |-> 0,
      file |-> NoFile, refit |-> FALSE, err |-> "", result |-> EmptyMap,
      X |-> EmptyMap ]

(***************************************************************************)
(* TermPredictor.predict                                                   *)
(***************************************************************************)
\* if not self._is_fitted: raise RuntimeError
GuardNeverRaises(fitted) == FALSE
NotFittedGuard(fitted) == ~fitted

\* if target_col in known_terms: continue
SkipNothing(target, known) == FALSE
SkipTarget(target, known) == target \in DOMAIN known

\* self.data[col].median(), in halves; NaN for a column without rows
MedianHalf(tbl, col) ==
    IF Len(tbl) = 0 THEN NanHalf
    ELSE LET s == SortSeq([ i \in 1..Len(tbl) |-> tbl[i][col].n ], LAMBDA a, b : a < b)
             n == Len(s)
         IN IF n % 2 = 1 THEN 2 * s[(n + 1) \div 2]
            ELSE s[n \div 2] + s[(n \div 2) + 1]

\* A feature vector built from every key of known_terms: the keys that are
\* no feature of the target add a component.
BuildXFromAllKeys(known, fcols, median) ==
    << Cardinality({ c \in DOMAIN known : c \notin Range(fcols) /\ known[c] # 0 }) >>
    \o [ j \in 1..Len(fcols) |->
           IF fcols[j] \in DOMAIN known THEN 2 * known[fcols[j]]
           ELSE median[fcols[j]] ]

\* A feature vector that fills the features not known with 0.
BuildXZeroFill(known, fcols, median) ==
    [ j \in 1..Len(fcols) |->
        IF fcols[j] \in DOMAIN known THEN 2 * known[fcols[j]] ELSE 0 ]

\* A feature vector that fills an absent 'Cap On Liability' from a supplied
\* 'Uncapped Liability'.
BuildXFromDerived(known, fcols, median) ==
    [ j \in 1..Len(fcols) |->
        IF fcols[j] \in DOMAIN known THEN 2 * known[fcols[j]]
        ELSE IF \E i \in 1..Len(DERIVED_COLUMNS) :
                   /\ DERIVED_COLUMNS[i].source = fcols[j]
                   /\ DERIVED_COLUMNS[i].derived \in DOMAIN known
        THEN 2 * transform_fn(known[(CHOOSE d \in DerivedSet : d \in DOMAIN known)])
        ELSE median[fcols[j]] ]

\* self.data[col].median() of every column of the Working Table
Medians(tbl) == [ c \in FeatureSet |-> MedianHalf(tbl, c) ]

\* Lines 159-167: the known value of a feature, or the column's median
BuildX(known, fcols, median) ==
    [ j \in 1..Len(fcols) |->
        IF fcols[j] \in DOMAIN known THEN 2 * known[fcols[j]]
        ELSE median[fcols[j]] ]

\* Entries that report something else than the class and its share of votes.
ResultEntryPercent(pred, votes, n) ==
    [ prediction |-> pred, probability |-> Round3(100 * votes, n) ]
ResultEntryVotes(pred, votes, n) ==
    [ prediction |-> votes, probability |-> Round3(votes, n) ]

\* Lines 170-180: {'prediction': int(pred), 'probability': round(float(prob), 3)}
ResultEntry(pred, votes, n) ==
    [ prediction |-> pred, probability |-> Round3(votes, n) ]

\* What stops the loop body of target t: nothing (""), or the exception raised
\* by self.models[t], by median() on a column of strings, or by the forest
\* when the vector holds NaN and the installed forest rejects missing values.
TargetError(p, t, known, accepts_nan) ==
    IF t \notin DOMAIN models[p] THEN "KeyError"
    ELSE LET need == { c \in Range(models[p][t].feature_cols) : c \notin DOMAIN known }
             tbl == data[p].rows
         IN IF need # {} /\ ~data[p].loaded THEN "TypeError"
            ELSE IF \E c \in need : \E i \in 1..Len(tbl) : IsStr(tbl[i][c]) THEN "TypeError"
            ELSE IF need # {} /\ Len(tbl) = 0 /\ ~accepts_nan THEN "ValueError"
            ELSE ""

PredictTarget(p, t, known, median) ==
    LET m == models[p][t]
        fv == ForestVotes(m, BuildX(known, m.feature_cols, median))
        pred == PredictClass(m, fv)
    IN ResultEntry(pred, Votes(fv, pred), m.n_estimators)

\* A resolution that reads the source from the predictions only.
DerivedSourceFromResults(source, known, results) ==
    IF source \in DOMAIN results
    THEN [ok |-> TRUE, val |-> results[source].prediction,
          prob |-> results[source].probability]
    ELSE [ok |-> FALSE, val |-> 0, prob |-> 0]

\* Lines 187-195: the source value and its confidence (1.0 is 1000)
DerivedSource(source, known, results) ==
    IF source \in DOMAIN known
    THEN [ok |-> TRUE, val |-> known[source], prob |-> 1000]
    ELSE IF source \in DOMAIN results
    THEN [ok |-> TRUE, val |-> results[source].prediction,
          prob |-> results[source].probability]
    ELSE [ok |-> FALSE, val |-> 0, prob |-> 0]

\* Lines 183-201: the derived entries added to results
DerivedEntries(known, results) ==
    LET todo == { i \in 1..Len(DERIVED_COLUMNS) :
                    /\ DERIVED_COLUMNS[i].derived \notin DOMAIN known
                    /\ DerivedSource(DERIVED_COLUMNS[i].source, known, results).ok }
    IN [ d \in { DERIVED_COLUMNS[i].derived : i \in todo } |->
           LET i == CHOOSE k \in todo : DERIVED_COLUMNS[k].derived = d
               src == DerivedSource(DERIVED_COLUMNS[i].source, known, results)
           IN [ prediction |-> transform_fn(src.val),
                probability |-> Round3(src.prob, 1000) ] ]

\* Lines 159-167, for every target predict() reaches: the local X of each
FeatureVectors(p, known) ==
    [ t \in { c \in TermSet : ~SkipTarget(c, known) } |->
        BuildX(known, models[p][t].feature_cols, Medians(data[p].rows)) ]

\* predict(known_terms): the exception raised ("" for none) and the result
PredictOutcome(p, known, accepts_nan) ==
    IF NotFittedGuard(is_fitted[p])
    THEN [err |-> "RuntimeError", result |-> EmptyMap]
    ELSE LET todo == { i \in 1..Len(TERM_COLUMNS) : ~SkipTarget(TERM_COLUMNS[i], known) }
             bad == { i \in todo : TargetError(p, TERM_COLUMNS[i], known, accepts_nan) # "" }
         IN IF bad # {}
            THEN [err |-> TargetError(p, TERM_COLUMNS[CHOOSE i \in bad : \A j \in bad : i <= j],
                                      known, accepts_nan),
                  result |-> EmptyMap]
            ELSE LET median == Medians(data[p].rows)
                     results == [ t \in { TERM_COLUMNS[i] : i \in todo } |->
                                    PredictTarget(p, t, known, median) ]
                 IN [err |-> "", result |-> results @@ DerivedEntries(known, results)]

(***************************************************************************)
(* TermPredictor.fit                                                       *)
(***************************************************************************)
\* The seed of a forest built without random_state: whatever the process's
\* entropy gives.
ForestSeedUnseeded(seed, entropy) == entropy
\* random_state=self.random_state
ForestSeed(seed, entropy) == seed

\* A training loop that keeps a target's model when it already has one.
TrainMissing(old, tbl, n, seed) ==
    [ t \in DOMAIN old \cup TermSet |->
        IF t \in DOMAIN old THEN old[t] ELSE Train(t, tbl, n, seed) ]

\* Lines 102-118: self.models[target_col] = {...} for every target
TrainAll(old, tbl, n, seed) ==
    [ t \in DOMAIN old \cup TermSet |->
        IF t \in TermSet THEN Train(t, tbl, n, seed) ELSE old[t] ]

\* What fit(file) raises ("" when it returns): read_csv on a missing file, or
\* the first model.fit / astype(int) on an empty table or one holding strings.
FitError(file) ==
    IF ~file.exists THEN "FileNotFoundError"
    ELSE IF Len(WorkingTable(file)) = 0 \/ ~IsNumericTable(WorkingTable(file))
    THEN "ValueError"
    ELSE ""

(***************************************************************************)
(* TermPredictor.evaluate                                                  *)
(***************************************************************************)
\* if self.data is None: raise RuntimeError
NoDataGuard(d) == ~d.loaded

\* StratifiedKFold(n_splits = k) without shuffling: the test fold (0..k-1) of
\* row i.  The rows sorted by class (classes in order of first appearance)
\* are dealt to the folds in turn; each class then hands its members, in row
\* order, their folds in ascending fold order.
FirstIndex(y, c) == CHOOSE i \in 1..Len(y) : y[i] = c /\ \A j \in 1..(i - 1) : y[j] # c

ClassOffset(y, c) ==
    Cardinality({ i \in 1..Len(y) : FirstIndex(y, y[i]) < FirstIndex(y, c) })

ClassCount(y, c) == Cardinality({ i \in 1..Len(y) : y[i] = c })

Allocation(y, k, f, c) ==
    Cardinality({ m \in 0..(ClassCount(y, c) - 1) : (ClassOffset(y, c) + m) % k = f })

TestFold(y, k, i) ==
    LET c == y[i]
        rank == Cardinality({ j \in 1..(i - 1) : y[j] = c })
    IN CHOOSE f \in 0..(k - 1) :
          /\ SeqSum([ g \in 1..f |-> Allocation(y, k, g - 1, c) ]) <= rank
          /\ rank < SeqSum([ g \in 1..(f + 1) |-> Allocation(y, k, g - 1, c) ])

\* cross_val_score raises when there are fewer rows than folds, or when no
\* class has as many members as there are folds.
CanSplit(tbl, target, k) ==
    /\ k >= 2
    /\ Len(tbl) >= k
    /\ \E c \in Range(ValuesY(tbl, target)) : ClassCount(ValuesY(tbl, target), c) >= k

\* The rows of tbl outside test fold f, in order (the training rows).
TrainRows(tbl, y, k, f) ==
    LET idx == SelectSeq([ i \in 1..Len(tbl) |-> i ], LAMBDA i : TestFold(y, k, i) # f)
    IN [ j \in 1..Len(idx) |-> tbl[idx[j]] ]

\* One fold of cross_val_score: a fresh forest fitted on the other folds and
\* scored on this one: [correct, size].
FoldScore(tbl, target, k, f, n, seed) ==
    LET y == ValuesY(tbl, target)
        m == Train(target, TrainRows(tbl, y, k, f), n, seed)
        test == { i \in 1..Len(tbl) : TestFold(y, k, i) = f }
        x(i) == [ j \in 1..Len(m.feature_cols) |-> 2 * tbl[i][m.feature_cols[j]].n ]
    IN [ correct |-> Cardinality({ i \in test : PredictClass(m, ForestVotes(m, x(i))) = y[i] }),
         size |-> Cardinality(test) ]

\* The integer square root.
ISqrt(q) == CHOOSE r \in 0..2000 : r * r <= q /\ q < (r + 1) * (r + 1)

\* A majority that looks at the classes 0 and 1 only.
MajorityClassBinary(y) ==
    IF ClassCount(y, 1) > ClassCount(y, 0) THEN 1 ELSE 0

\* Lines 237-238: unique[np.argmax(counts)], the first of the most frequent
\* classes in ascending order
MajorityClass(y) ==
    CHOOSE c \in Range(y) :
        /\ \A d \in Range(y) : ClassCount(y, d) <= ClassCount(y, c)
        /\ \A d \in Range(y) : ClassCount(y, d) = ClassCount(y, c) => c <= d

\* The difference taken the other way round.
LiftReversed(num, den, top, rows) ==
    Round3Signed(top * den - num * rows, den * rows)

\* Line 245: round(scores.mean() - baseline, 3), for the mean num / den and
\* the baseline top / rows
Lift(num, den, top, rows) ==
    Round3Signed(num * rows - top * den, den * rows)

\* Lines 233-246: the scores of one target, in thousandths.  With fold
\* accuracies c_f / s_f, L the product of the s_f and A_f = c_f * L / s_f:
\* mean = S / (k * L) for S the sum of the A_f, and
\* std = sqrt(V / (k^3 * L^2)) for V the sum of the (k * A_f - S)^2.
TargetScores(tbl, target, k, n, seed) ==
    LET y == ValuesY(tbl, target)
        folds == [ f \in 1..k |-> FoldScore(tbl, target, k, f - 1, n, seed) ]
        L == SeqProd([ f \in 1..k |-> folds[f].size ])
        A == [ f \in 1..k |-> folds[f].correct * (L \div folds[f].size) ]
        S == SeqSum(A)
        V == SeqSum([ f \in 1..k |-> (k * A[f] - S) * (k * A[f] - S) ])
        top == ClassCount(y, MajorityClass(y))
        rows == Len(tbl)
        den == k * k * k * L * L
        \* 2000 * 2000 * V / den, taken in two steps to stay within 32 bits
        q == (2000 * V) \div den
        r == (2000 * V) % den
    IN [ accuracy |-> Round3(S, k * L),
         std |-> (ISqrt(2000 * q + (2000 * r) \div den) + 1) \div 2,
         baseline |-> Round3(top, rows),
         lift |-> Lift(S, k * L, top, rows) ]

\* evaluate(cv_folds)
EvaluateOutcome(p, k) ==
    IF NoDataGuard(data[p])
    THEN [err |-> "RuntimeError", result |-> EmptyMap]
    ELSE LET tbl == data[p].rows
         IN IF \/ ~IsNumericTable(tbl)
               \/ \E t \in TermSet : ~CanSplit(tbl, t, k)
            THEN [err |-> "ValueError", result |-> EmptyMap]
            ELSE [err |-> "",
                  result |-> [ t \in TermSet |->
                                 TargetScores(tbl, t, k, n_estimators[p], random_state[p]) ]]

(***************************************************************************)
(* TermPredictor.feature_importance                                        *)
(***************************************************************************)
\* importances[idx], rounded: the weight's share of all weights (0 when no
\* tree splits)
Importance(m, j) ==
    LET total == SeqSum([ i \in 1..Len(m.feature_cols) |-> FeatureWeight(m, i) ])
    IN IF total = 0 THEN 0 ELSE Round3(FeatureWeight(m, j), total)

\* np.argsort(importances) without the reversal: ascending
RECURSIVE ArgsortAscending(_, _)
ArgsortAscending(m, left) ==
    IF left = {} THEN << >>
    ELSE LET j == CHOOSE a \in left : \A b \in left :
                     \/ FeatureWeight(m, a) < FeatureWeight(m, b)
                     \/ (FeatureWeight(m, a) = FeatureWeight(m, b) /\ a <= b)
         IN << j >> \o ArgsortAscending(m, left \ {j})

\* np.argsort(importances)[::-1]: descending, equal importances in
\* descending index order
RECURSIVE ArgsortDescending(_, _)
ArgsortDescending(m, left) ==
    IF left = {} THEN << >>
    ELSE LET j == CHOOSE a \in left : \A b \in left :
                     \/ FeatureWeight(m, a) > FeatureWeight(m, b)
                     \/ (FeatureWeight(m, a) = FeatureWeight(m, b) /\ a >= b)
         IN << j >> \o ArgsortDescending(m, left \ {j})

\* How many features feature_importance reports per target.
TopFeatures == 5

\* Lines 262-277: the top features of one target
TopOf(m) ==
    LET sorted_idx == ArgsortDescending(m, 1..Len(m.feature_cols))
        top == SubSeq(sorted_idx, 1, IF Len(sorted_idx) < TopFeatures THEN Len(sorted_idx)
                                     ELSE TopFeatures)
    IN [ r \in 1..Len(top) |->
           [ feature |-> m.feature_cols[top[r]], importance |-> Importance(m, top[r]) ] ]

\* feature_importance()
ImportanceOutcome(p) ==
    IF NotFittedGuard(is_fitted[p])
    THEN [err |-> "RuntimeError", result |-> EmptyMap]
    ELSE IF \E t \in TermSet : t \notin DOMAIN models[p]
    THEN [err |-> "KeyError", result |-> EmptyMap]
    ELSE [err |-> "", result |-> [ t \in TermSet |-> TopOf(models[p][t]) ]]

(***************************************************************************)
(* The inputs: file contents, known terms and fold counts.                  *)
(***************************************************************************)
TextYesCap == << "Y", "e", "s" >>
TextMaybe == << "m", "a", "y", "b", "e" >>
Text30 == << "3", "0" >>
Text60 == << "6", "0" >>
Text120 == << "1", "2", "0" >>
Text365 == << "3", "6", "5" >>
Text2000 == << "2", "0", "0", "0" >>
Text3Years == << "3", " ", "y", "e", "a", "r", "s" >>

\* A row of the file: the eight yes/no cells in BINARY_COLUMNS order, the
\* renewal term and the notice period.
FileRow(bin, renewal, notice) ==
    [ col \in RawColumns |->
        IF col = RENEWAL_RAW THEN renewal
        ELSE IF col = NOTICE_RAW THEN notice
        ELSE bin[CHOOSE i \in 1..Len(BINARY_COLUMNS) : BINARY_COLUMNS[i] = col] ]

RowCatalog ==
    << \* every clause present, a one-year renewal
       FileRow(<< TextYes, TextYes, TextYes, TextYes, TextYes, TextYes, TextYes, TextYes >>,
               Text365, Text30),
       \* mixed clauses, a renewal term in free text
       FileRow(<< TextNo, TextYesCap, TextNo, TextYes, TextNo, TextYes, TextNo, TextYesCap >>,
               Text3Years, Text60),
       \* no clause present, a long renewal
       FileRow(<< TextNo, TextNo, TextNo, TextNo, TextNo, TextNo, TextNo, TextNo >>,
               Text2000, Text120),
       \* an empty cell in 'Audit Rights', no renewal term and no notice period
       FileRow(<< TextYes, TextYes, TextYes, TextYes, TextYes, TextYes, << >>, TextYes >>,
               << >>, << >>),
       \* a value that is neither yes nor no in 'Audit Rights'
       FileRow(<< TextYes, TextNo, TextYes, TextNo, TextYes, TextNo, TextMaybe, TextNo >>,
               Text365, Text30) >>

RECURSIVE SeqsUpTo(_, _)
SeqsUpTo(S, n) ==
    IF n = 0 THEN { << >> }
    ELSE LET shorter == SeqsUpTo(S, n - 1)
         IN shorter \cup { Append(s, x) : s \in shorter, x \in S }

\* The corpus files: a path without a file, and every file of at most
\* MaxRows rows of the catalog.
Files ==
    { NoFile } \cup
    { [exists |-> TRUE, rows |-> [ i \in 1..Len(s) |-> RowCatalog[s[i]] ]] :
        s \in SeqsUpTo(1..Len(RowCatalog), MaxRows) }

\* A key of known_terms that the taxonomy does not hold.
UnknownKeys == { "Termination For Convenience" }

AllKeys == FeatureSet \cup DerivedSet \cup UnknownKeys

\* The encoded values a caller may give a key.
KnownValues(c) ==
    IF c = "Renewal Term Bucket" THEN 0..4
    ELSE IF c = "Notice Period Bucket" THEN 0..3
    ELSE 0..1

KnownTerms ==
    UNION { { f \in [S -> 0..4] : \A c \in S : f[c] \in KnownValues(c) } :
              S \in { T \in SUBSET AllKeys : Cardinality(T) <= MaxKnown } }

CvFolds == {2, 3}

(***************************************************************************)
(* Construction and the operations.                                        *)
(***************************************************************************)
\* TermPredictor(n_estimators = NEstimators), twice
Init ==
    /\ n_estimators = [ p \in Instances |-> NEstimators ]
    /\ random_state = [ p \in Instances |-> DefaultSeed ]
    /\ models = [ p \in Instances |-> EmptyMap ]
    /\ data = [ p \in Instances |-> NoData ]
    /\ is_fitted = [ p \in Instances |-> FALSE ]
    /\ last_fit = [ p \in Instances |-> NeverFit ]
    /\ ret = NoRet

Idle == ret.op = "none"

\* predictor.fit(file)
Fit(p, file, entropy) ==
    /\ Idle
    /\ LET err == FitError(file)
           tbl == WorkingTable(file)
       IN /\ data' = IF file.exists THEN [data EXCEPT ![p] = Loaded(tbl)] ELSE data
          /\ models' = IF err = ""
                       THEN [models EXCEPT ![p] =
                               TrainAll(models[p], tbl, n_estimators[p],
                                        ForestSeed(random_state[p], entropy))]
                       ELSE models
          /\ is_fitted' = IF err = "" THEN [is_fitted EXCEPT ![p] = TRUE] ELSE is_fitted
          /\ last_fit' = [last_fit EXCEPT ![p] =
                            IF err = "" THEN [status |-> "returned", file |-> file]
                            ELSE [status |-> "raised", file |-> NoFile]]
          /\ ret' = [NoRet EXCEPT !.op = "fit", !.inst = p, !.file = file,
                                  !.refit = is_fitted[p], !.err = err]
    /\ UNCHANGED << n_estimators, random_state >>

\* Whether the vector of some target holds NaN (a median over no rows).
MedianOfNothing(p) == data[p].loaded /\ Len(data[p].rows) = 0

\* predictor.predict(known); accepts_nan: whether the installed forest
\* takes missing values at predict time (it depends on the sklearn release).
Predict(p, known, accepts_nan) ==
    /\ Idle
    /\ accepts_nan \in (IF MedianOfNothing(p) THEN BOOLEAN ELSE {TRUE})
    /\ LET out == PredictOutcome(p, known, accepts_nan)
       IN ret' = [NoRet EXCEPT !.op = "predict", !.inst = p, !.known = known,
                               !.accepts_nan = accepts_nan,
                               !.err = out.err, !.result = out.result,
                               !.X = IF out.err = "" THEN FeatureVectors(p, known)
                                     ELSE EmptyMap]
    /\ UNCHANGED << n_estimators, random_state, models, data, is_fitted, last_fit >>

\* An evaluate that keeps the forests of its first fold as the models.
ModelsStoredByEvaluate(p, k) ==
    IF EvaluateOutcome(p, k).err # "" THEN models[p]
    ELSE [ t \in TermSet |->
             Train(t, TrainRows(data[p].rows, ValuesY(data[p].rows, t), k, 0),
                   n_estimators[p], random_state[p]) ]

\* Lines 226-233: the forests of evaluate are the local `model`, fitted on
\* clones by cross_val_score; self.models is not assigned.
ModelsAfterEvaluate(p, k) == models[p]

\* predictor.evaluate(cv_folds = k)
Evaluate(p, k) ==
    /\ Idle
    /\ LET out == EvaluateOutcome(p, k)
       IN ret' = [NoRet EXCEPT !.op = "evaluate", !.inst = p, !.cv = k,
                               !.err = out.err, !.result = out.result]
    /\ models' = [models EXCEPT ![p] = ModelsAfterEvaluate(p, k)]
    /\ UNCHANGED << n_estimators, random_state, data, is_fitted, last_fit >>

\* predictor.feature_importance()
FeatureImportance(p) ==
    /\ Idle
    /\ LET out == ImportanceOutcome(p)
       IN ret' = [NoRet EXCEPT !.op = "feature_importance", !.inst = p,
                               !.err = out.err, !.result = out.result]
    /\ UNCHANGED << n_estimators, random_state, models, data, is_fitted, last_fit >>

\* The caller takes the result (or catches the exception) of the call.
Return ==
    /\ ~Idle
    /\ ret' = NoRet
    /\ UNCHANGED << n_estimators, random_state, models, data, is_fitted, last_fit >>

\* One predictor, used by one caller.
Next ==
    \/ \E file \in Files, entropy \in Seeds : Fit(1, file, entropy)
    \/ \E known \in KnownTerms, accepts_nan \in BOOLEAN : Predict(1, known, accepts_nan)
    \/ \E k \in CvFolds : Evaluate(1, k)
    \/ FeatureImportance(1)
    \/ Return

Spec == Init /\ [][Next]_vars

(***************************************************************************)
(* Two predictors, for the properties that compare instances.  Each is     *)
(* built with a seed of its own and fitted and queried independently.      *)
(***************************************************************************)
InitPair ==
    /\ n_estimators = [ p \in Instances |-> NEstimators ]
    /\ random_state \in [ Instances -> Seeds ]
    /\ models = [ p \in Instances |-> EmptyMap ]
    /\ data = [ p \in Instances |-> NoData ]
    /\ is_fitted = [ p \in Instances |-> FALSE ]
    /\ last_fit = [ p \in Instances |-> NeverFit ]
    /\ ret = NoRet

\* The files of the pair: no file, and the files over the first two catalog
\* rows.
PairFiles ==
    { NoFile } \cup
    { [exists |-> TRUE, rows |-> [ i \in 1..Len(s) |-> RowCatalog[s[i]] ]] :
        s \in SeqsUpTo(1..2, MaxRows) \ { << >> } }

PairKnown ==
    { EmptyMap,
      [ c \in {"Cap On Liability"} |-> 1 ],
      [ c \in {"Audit Rights"} |-> 0 ],
      [ c \in {"Renewal Term Bucket", "Notice Period Bucket"} |-> 2 ],
      [ c \in {"Uncapped Liability", "Termination For Convenience"} |-> 1 ] }

NextPair ==
    \/ \E p \in Instances, file \in PairFiles, entropy \in Seeds : Fit(p, file, entropy)
    \/ \E p \in Instances, known \in PairKnown, accepts_nan \in BOOLEAN :
          Predict(p, known, accepts_nan)
    \/ \E p \in Instances, k \in CvFolds : Evaluate(p, k)
    \/ \E p \in Instances : FeatureImportance(p)
    \/ Return

SpecPair == InitPair /\ [][NextPair]_vars

(***************************************************************************)
(* One predictor on longer corpora, so that the folds of evaluate() hold   *)
(* more than one row and a column more than two classes.                   *)
(***************************************************************************)
\* The length of the longer corpus files, in rows.
LongRows == 3 * MaxRows

\* a rows of the first kind, then b of the second, then the rest of the
\* third kind of the catalog
LongFile(a, b) ==
    [ exists |-> TRUE,
      rows |-> [ i \in 1..LongRows |->
                   RowCatalog[IF i <= a THEN 1 ELSE IF i <= a + b THEN 2 ELSE 3] ] ]

LongFiles ==
    UNION { { LongFile(a, b) : b \in 0..(LongRows - a) } : a \in 0..LongRows }

NextLong ==
    \/ \E file \in LongFiles : Fit(1, file, DefaultSeed)
    \/ \E known \in PairKnown : Predict(1, known, TRUE)
    \/ \E k \in CvFolds : Evaluate(1, k)
    \/ FeatureImportance(1)
    \/ Return

SpecLong == Init /\ [][NextLong]_vars

(***************************************************************************)
(* One predictor on corpora that vary the renewal-term and notice-period   *)
(* cells: empty, numbers of either sign, and free text.                    *)
(***************************************************************************)
TextZero == << "0" >>
TextMinus5 == << "-", "5" >>
TextTbd == << "t", "b", "d" >>

CellTexts == { << >>, TextZero, TextMinus5, Text30, Text365, Text2000, Text3Years, TextTbd }

\* A row with every clause present and the given renewal and notice cells.
CellRow(text) ==
    FileRow(<< TextYes, TextYes, TextYes, TextYes, TextYes, TextYes, TextYes, TextYes >>,
            text, text)

CellFiles ==
    { NoFile } \cup
    { [exists |-> TRUE, rows |-> [ i \in 1..Len(s) |-> CellRow(s[i]) ]] :
        s \in SeqsUpTo(CellTexts, MaxRows) }

NextCells ==
    \/ \E file \in CellFiles : Fit(1, file, DefaultSeed)
    \/ \E known \in PairKnown, accepts_nan \in BOOLEAN : Predict(1, known, accepts_nan)
    \/ \E k \in CvFolds : Evaluate(1, k)
    \/ FeatureImportance(1)
    \/ Return

SpecCells == Init /\ [][NextCells]_vars

(***************************************************************************)
(* Properties.                                                             *)
(***************************************************************************)
Queries == { "predict", "evaluate", "feature_importance" }

\* The call that has just ended is predict, and it returned a result.
PredictReturned == ret.op = "predict" /\ ret.err = ""

\* The state a completed fit() leaves: the flag is set and every target's
\* forest is the one trained on the Working Table held in self.data.
FitIntact(p) ==
    /\ is_fitted[p]
    /\ DOMAIN models[p] = TermSet
    /\ \A t \in TermSet :
          /\ models[p][t].X = ValuesX(data[p].rows, FeatureCols(t))
          /\ models[p][t].y = ValuesY(data[p].rows, t)

PredictableOrDerived == TermSet \cup DerivedSet

C3_Derived ==
    (PredictReturned /\ "Uncapped Liability" \in DOMAIN ret.result) =>
        LET derived == ret.result["Uncapped Liability"]
        IN IF "Cap On Liability" \in DOMAIN ret.known
           THEN /\ derived.prediction = 1 - ret.known["Cap On Liability"]
                /\ derived.probability = 1000
           ELSE /\ "Cap On Liability" \in DOMAIN ret.result
                /\ derived.prediction = 1 - ret.result["Cap On Liability"].prediction
                /\ derived.probability = ret.result["Cap On Liability"].probability

\* 'Cap On Liability' was predicted as 1 with a probability below 1.0, and
\* 'Uncapped Liability' was derived from it.
C3_Witness ==
    /\ PredictReturned
    /\ "Cap On Liability" \in DOMAIN ret.result
    /\ "Uncapped Liability" \in DOMAIN ret.result
    /\ ret.result["Cap On Liability"].prediction = 1
    /\ ret.result["Cap On Liability"].probability < 1000

\* C4: on a predictor on which fit was never called, predict, evaluate and
\* feature_importance raise the not-fitted error, return nothing, and the
\* models, the data and the flag stay as the constructor left them.
C4_NeverFitted ==
    \A p \in Instances :
        last_fit[p].status = "never" =>
            /\ models[p] = EmptyMap
            /\ data[p] = NoData
            /\ ~is_fitted[p]
            /\ (ret.op \in Queries /\ ret.inst = p) =>
                  (ret.err = "RuntimeError" /\ ret.result = EmptyMap)

\* feature_importance has just been called on a predictor never fitted.
C4_Witness ==
    /\ ret.op = "feature_importance"
    /\ last_fit[ret.inst].status = "never"
    /\ ret.err = "RuntimeError"

\* C5 as stated: whenever the predictor is Unfitted, predict, evaluate and
\* feature_importance fail with the not-fitted error.
C5_UnfittedRaisesNotFitted ==
    (ret.op \in Queries /\ ~is_fitted[ret.inst]) => ret.err = "RuntimeError"

\* C6: when a re-fit returns, the Working Table is that of the file of this
\* fit call and every target's forest is the one trained on it: nothing of
\* the previous fit is left.
C6_RefitDiscards ==
    (ret.op = "fit" /\ ret.refit /\ ret.err = "") =>
        LET p == ret.inst
            tbl == WorkingTable(ret.file)
        IN /\ data[p] = Loaded(tbl)
           /\ DOMAIN models[p] = TermSet
           /\ \A t \in TermSet :
                 models[p][t] = Train(t, tbl, n_estimators[p], random_state[p])

\* A re-fit on a file of two surviving rows has returned.
C6_Witness ==
    /\ ret.op = "fit" /\ ret.refit /\ ret.err = ""
    /\ Len(data[ret.inst].rows) = 2

\* C7: every probability of every entry predict returns is in [0, 1].
C7_ProbabilityBounds ==
    PredictReturned =>
        \A c \in DOMAIN ret.result :
            0 <= ret.result[c].probability /\ ret.result[c].probability <= 1000

\* A result with a predicted probability strictly between 0 and 1 and a
\* derived entry.
C7_Witness ==
    /\ PredictReturned
    /\ "Uncapped Liability" \in DOMAIN ret.result
    /\ \E c \in DOMAIN ret.result \cap TermSet :
          0 < ret.result[c].probability /\ ret.result[c].probability < 1000

C9_Determinism ==
    \A p, q \in Instances :
        (/\ p # q
         /\ random_state[p] = random_state[q]
         /\ n_estimators[p] = n_estimators[q]
         /\ last_fit[p].status = "returned"
         /\ last_fit[q] = last_fit[p]
         /\ ret.inst = p) =>
            /\ ret.op = "predict" =>
                  LET other == PredictOutcome(q, ret.known, ret.accepts_nan)
                  IN ret.err = other.err /\ ret.result = other.result
            /\ ret.op = "evaluate" =>
                  LET other == EvaluateOutcome(q, ret.cv)
                  IN ret.err = other.err /\ ret.result = other.result

\* Both predictors were fitted on the same two-row file with the same seed and
\* the first has returned a prediction that is not unanimous.
C9_Witness ==
    /\ random_state[1] = random_state[2]
    /\ last_fit[1].status = "returned"
    /\ last_fit[2] = last_fit[1]
    /\ Len(data[1].rows) = 2
    /\ PredictReturned /\ ret.inst = 1
    /\ \E c \in DOMAIN ret.result : ret.result[c].probability < 1000

\* known_terms without its keys that are no taxonomy column
Recognized(known) == [ c \in DOMAIN known \ UnknownKeys |-> known[c] ]

EvaluateReturned == ret.op = "evaluate" /\ ret.err = ""

\* The number of rows of the most frequent value of column col of tbl.
MostFrequent(tbl, col) ==
    LET count(v) == Cardinality({ i \in 1..Len(tbl) : tbl[i][col].n = v })
        best == CHOOSE i \in 1..Len(tbl) :
                    \A j \in 1..Len(tbl) : count(tbl[j][col].n) <= count(tbl[i][col].n)
    IN count(tbl[best][col].n)

\* C11: evaluate returns one entry per predictable column, with accuracy and
\* baseline in [0, 1] and the baseline equal to the share of the column's
\* most frequent class among the rows of the Working Table, rounded to 3
\* decimals, whether the column has two classes or more.
C11_Baseline ==
    EvaluateReturned =>
        /\ DOMAIN ret.result = TermSet
        /\ \A t \in TermSet :
              LET tbl == data[ret.inst].rows
              IN /\ 0 <= ret.result[t].accuracy /\ ret.result[t].accuracy <= 1000
                 /\ 0 <= ret.result[t].baseline /\ ret.result[t].baseline <= 1000
                 /\ ret.result[t].baseline = Round3(MostFrequent(tbl, t), Len(tbl))

\* evaluate has returned for a Working Table in which 'Renewal Term Bucket'
\* has three classes, the most frequent on half of the rows.
C11_Witness ==
    /\ EvaluateReturned
    /\ Cardinality({ data[ret.inst].rows[i]["Renewal Term Bucket"].n :
                       i \in 1..Len(data[ret.inst].rows) }) = 3
    /\ ret.result["Renewal Term Bucket"].baseline = 500
    /\ ret.result["Cap On Liability"].baseline = 667

\* C12 as stated: in every entry of evaluate, the reported lift equals the
\* reported accuracy minus the reported baseline at 3 decimals.
C12_LiftOfReported ==
    EvaluateReturned =>
        \A t \in DOMAIN ret.result :
            ret.result[t].lift = ret.result[t].accuracy - ret.result[t].baseline

\* C12, amended: the lift is rounded from the unrounded difference, so it is
\* within 0.001 of the reported accuracy minus the reported baseline.
C12_LiftWithinOne ==
    EvaluateReturned =>
        \A t \in DOMAIN ret.result :
            LET d == ret.result[t].lift - (ret.result[t].accuracy - ret.result[t].baseline)
            IN -1 <= d /\ d <= 1

\* An entry whose lift is not zero and is off by 0.001 from the difference of
\* the reported numbers.
C12_Witness ==
    /\ EvaluateReturned
    /\ \E t \in DOMAIN ret.result :
          /\ ret.result[t].lift = -333
          /\ ret.result[t].accuracy = 333
          /\ ret.result[t].baseline = 667

\* C13: feature_importance on a fitted predictor returns one entry per
\* predictable column, each a list of one to five {feature, importance}
\* pairs with importances that are not negative and do not increase, and
\* with distinct features of that target's feature list, never the target.
C13_TopFeatures ==
    (ret.op = "feature_importance" /\ is_fitted[ret.inst]) =>
        /\ ret.err = ""
        /\ DOMAIN ret.result = TermSet
        /\ \A t \in TermSet :
              LET top == ret.result[t]
              IN /\ 1 <= Len(top) /\ Len(top) <= TopFeatures
                 /\ \A r \in 1..Len(top) :
                       /\ top[r].importance >= 0
                       /\ top[r].feature \in Range(FeatureCols(t))
                       /\ top[r].feature # t
                       /\ \A s \in 1..Len(top) : top[s].feature = top[r].feature => s = r
                 /\ \A r \in 1..(Len(top) - 1) : top[r].importance >= top[r + 1].importance

\* feature_importance has returned a list of five whose importances differ.
C13_Witness ==
    /\ ret.op = "feature_importance" /\ ret.err = ""
    /\ Len(ret.result["Audit Rights"]) = TopFeatures
    /\ ret.result["Audit Rights"][1].importance > ret.result["Audit Rights"][5].importance

\* FEATURE_COLUMNS with its i-th column left out, the order kept.
WithoutIndex(i) ==
    [ j \in 1..(Len(FEATURE_COLUMNS) - 1) |->
        IF j < i THEN FEATURE_COLUMNS[j] ELSE FEATURE_COLUMNS[j + 1] ]

\* C14: once a fit has returned, the models hold exactly one entry per
\* predictable column (none for an InputOnly or Derived column), each with
\* the feature list FEATURE_COLUMNS less the target, in FEATURE_COLUMNS
\* order; and no predict result has an InputOnly column as a key.
C14_ModelsShape ==
    /\ \A p \in Instances :
          is_fitted[p] =>
              /\ DOMAIN models[p] = Range(BINARY_COLUMNS) \cup Range(ORDINAL_COLUMNS)
              /\ DOMAIN models[p] \cap (Range(INPUT_ONLY_COLUMNS) \cup DerivedSet) = {}
              /\ \A i \in 1..Len(FEATURE_COLUMNS) :
                    FEATURE_COLUMNS[i] \in DOMAIN models[p] =>
                        /\ models[p][FEATURE_COLUMNS[i]].feature_cols = WithoutIndex(i)
                        /\ FEATURE_COLUMNS[i] \notin
                              Range(models[p][FEATURE_COLUMNS[i]].feature_cols)
    /\ PredictReturned => DOMAIN ret.result \cap Range(INPUT_ONLY_COLUMNS) = {}

\* A fit has returned and a later predict call, given no known term, has
\* returned its result.
C14_Witness ==
    /\ PredictReturned
    /\ ret.known = EmptyMap
    /\ "Notice Period Bucket" \in Range(models[ret.inst]["Renewal Term Bucket"].feature_cols)
    /\ Cardinality(DOMAIN ret.result) = 10

\* A fit call has just returned.
FitReturned == ret.op = "fit" /\ ret.err = ""

\* C15 as stated: a free-text renewal term whose first integer is followed
\* by a year unit is bucketed as that many years: the integer times 365 goes
\* through the thresholds ("3 years" is code 3, "1 year" is code 2).
C15_YearsAsDays ==
    FitReturned =>
        LET raw == load_cuad_data(ret.file)
            tbl == bucket_renewal_term(raw)
        IN \A i \in 1..Len(raw) :
              LET val == raw[i][RENEWAL_RAW]
              IN (IsStr(val) /\ HasDigit(val.s) /\ Contains(Lower(val.s), TextYear)) =>
                    tbl[i]["Renewal Term Bucket"].n =
                        RenewalThresholds(OneYearDays * DigitsToInt(FirstDigitRun(val.s), 0))

\* The number a cell stands for, when it is a number or an integer literal.
IsNumberCell(c) == c.k = "num" \/ (IsStr(c) /\ IsIntText(Strip(c.s)))

NumberOfCell(c) == IF c.k = "num" THEN c.n ELSE IntOfText(Strip(c.s))

\* C16 as stated: on every cell of the file fit() has read, the two
\* bucketing functions return a code (0..4 for the renewal term, 0..3 for
\* the notice period), and the code is 0 for a cell that is missing, that
\* holds no number, or whose number is not positive.
C16_BucketsTotal ==
    (ret.op = "fit" /\ ret.file.exists) =>
        LET raw == load_cuad_data(ret.file)
            tbl == bucket_notice_period(bucket_renewal_term(raw))
        IN \A i \in 1..Len(raw) :
              LET renewal == raw[i][RENEWAL_RAW]
                  notice == raw[i][NOTICE_RAW]
              IN /\ tbl[i]["Renewal Term Bucket"].k = "num"
                 /\ tbl[i]["Renewal Term Bucket"].n \in 0..4
                 /\ tbl[i]["Notice Period Bucket"].k = "num"
                 /\ tbl[i]["Notice Period Bucket"].n \in 0..3
                 /\ (\/ IsNa(renewal)
                     \/ (IsStr(renewal) /\ ~HasDigit(renewal.s))
                     \/ (IsNumberCell(renewal) /\ NumberOfCell(renewal) <= 0)) =>
                       tbl[i]["Renewal Term Bucket"].n = 0
                 /\ (\/ IsNa(notice)
                     \/ ~IsNumberCell(notice)
                     \/ NumberOfCell(notice) <= 0) =>
                       tbl[i]["Notice Period Bucket"].n = 0

\* C17 as stated: after encode_boolean_columns every cell of a Binary column
\* is 1 (raw 'yes' in any letter case), 0 (raw 'no' in any letter case) or
\* missing; no other raw value remains as its string.
C17_BinaryEncoded ==
    (ret.op = "fit" /\ ret.file.exists) =>
        LET raw == load_cuad_data(ret.file)
            df == encode_boolean_columns(raw)
        IN \A i \in 1..Len(raw) : \A col \in Range(BINARY_COLUMNS) :
              /\ df[i][col] \in { Num(1), Num(0), NaN }
              /\ (IsStr(raw[i][col]) /\ Lower(raw[i][col].s) = TextYes) => df[i][col] = Num(1)
              /\ (IsStr(raw[i][col]) /\ Lower(raw[i][col].s) = TextNo) => df[i][col] = Num(0)

\* C18 as stated: a fit on a corpus with a single surviving row (below any
\* training floor) fails with an error and trains nothing: a first fit
\* leaves the predictor Unfitted and without models.
C18_TrainingFloor ==
    (ret.op = "fit" /\ ret.file.exists /\ Len(WorkingTable(ret.file)) = 1) =>
        /\ ret.err # ""
        /\ ~ret.refit => (~is_fitted[ret.inst] /\ models[ret.inst] = EmptyMap)

MiddleSum(tbl, col) ==
    LET n == Len(tbl)
        atMost(v) == Cardinality({ i \in 1..n : tbl[i][col].n <= v })
        values == { tbl[i][col].n : i \in 1..n }
        rank(r) == CHOOSE v \in values :
                       atMost(v) >= r /\ \A w \in values : atMost(w) >= r => v <= w
    IN IF n = 0 THEN NanHalf ELSE rank((n + 1) \div 2) + rank((n \div 2) + 1)

\* C20: for every predictable target t not in known_terms, the feature
\* vector given to t's classifier holds, in the order of t's feature list,
\* the known value of each feature column that is in known_terms and the
\* median of the column over the Working Table for each other one.
C20_FeatureVector ==
    PredictReturned =>
        /\ DOMAIN ret.X = TermSet \ DOMAIN ret.known
        /\ \A i \in 1..Len(FEATURE_COLUMNS) :
              FEATURE_COLUMNS[i] \in DOMAIN ret.X =>
                  LET x == ret.X[FEATURE_COLUMNS[i]]
                      cols == WithoutIndex(i)
                  IN /\ Len(x) = Len(cols)
                     /\ \A j \in 1..Len(cols) :
                           x[j] = IF cols[j] \in DOMAIN ret.known
                                  THEN 2 * ret.known[cols[j]]
                                  ELSE MiddleSum(data[ret.inst].rows, cols[j])

\* predict has returned for a known InputOnly column and a known predictable
\* column on a Working Table of two rows that differ in 'Audit Rights'.
C20_Witness ==
    /\ PredictReturned
    /\ DOMAIN ret.known = {"Notice Period Bucket", "Cap On Liability"}
    /\ ret.known["Notice Period Bucket"] = 3
    /\ Len(data[ret.inst].rows) = 2
    /\ MiddleSum(data[ret.inst].rows, "Audit Rights") = 1
    /\ ret.X["Renewal Term Bucket"][Len(FEATURE_COLUMNS) - 1] = 6

\* Lines 88-96 of fit(): the corpus after encoding and bucketing, restricted
\* to FEATURE_COLUMNS, before any row is dropped.
EncodedCorpus(file) ==
    Project(bucket_notice_period(bucket_renewal_term(
                encode_boolean_columns(load_cuad_data(file)))), FeatureSet)

\* The rows of the encoded corpus of file without a missing value in any
\* column of FEATURE_COLUMNS, counted out of the corpus one by one.
CompleteRows(file) ==
    LET df == EncodedCorpus(file)
        keep == { i \in 1..Len(df) : \A c \in FeatureSet : ~IsNa(df[i][c]) }
        nth(j) == CHOOSE i \in keep : Cardinality({ m \in keep : m <= i }) = j
    IN [ j \in 1..Cardinality(keep) |-> df[nth(j)] ]

\* C21: whenever fit has trained the Target Models and whenever the predictor
\* is Fitted, the Working Table holds no missing value; the table a fit call
\* builds consists of exactly the rows of its corpus that have no missing
\* value in any column of Binary, Ordinal or InputOnly; and only a fit call
\* replaces the table.
C21_WorkingTable ==
    /\ [](\A p \in Instances :
            (is_fitted[p] \/ (FitReturned /\ ret.inst = p)) =>
                /\ data[p].loaded
                /\ \A i \in 1..Len(data[p].rows) :
                      \A c \in FeatureSet : ~IsNa(data[p].rows[i][c]))
    /\ []((ret.op = "fit" /\ ret.file.exists) =>
            data[ret.inst].rows = CompleteRows(ret.file))
    /\ [][\A p \in Instances :
            data'[p] # data[p] => (ret'.op = "fit" /\ ret'.inst = p)]_vars

\* fit has trained on a corpus of two rows, one of them dropped for its
\* empty 'Audit Rights' cell.
C21_Witness ==
    /\ FitReturned
    /\ Len(ret.file.rows) = 2
    /\ IsNa(load_cuad_data(ret.file)[2]["Audit Rights"])
    /\ Len(data[ret.inst].rows) = 1
    /\ data[ret.inst].rows[1] = EncodedCorpus(ret.file)[1]

\* C22 as stated: in every state in which the fitted flag is true, every
\* Target Model in models was trained on the current Working Table
\* (self.data), after any sequence of fit calls, a re-fit that raises
\* part-way through included.
C22_FittedModelsCurrent ==
    \A p \in Instances :
        is_fitted[p] =>
            /\ data[p].loaded
            /\ \A t \in DOMAIN models[p] :
                  models[p][t] = Train(t, data[p].rows, n_estimators[p], random_state[p])

\* The keys of known_terms that are no feature column of any target.
OtherKeys == DerivedSet \cup UnknownKeys

\* known_terms restricted to the keys in S.
Restrict(known, S) == [ c \in DOMAIN known \cap S |-> known[c] ]

\* The mappings that agree with known on every column of FEATURE_COLUMNS and
\* hold any keys and values outside them.
Variants(known) ==
    { Restrict(known, FeatureSet) @@ extra :
        extra \in UNION { [S -> 0..1] : S \in SUBSET OtherKeys } }

\* C23: for a fitted predictor and a predictable target t, two known_terms
\* mappings that omit t and agree on every feature column of t give t the
\* same entry; the entry is the one t's own model gives the known values of
\* t's feature columns alone, whatever the other targets' predictions, a
\* supplied 'Uncapped Liability' or any key outside t's feature list.
C23_Independence ==
    PredictReturned =>
        /\ \A t \in TermSet \ DOMAIN ret.known :
              ret.result[t] =
                  PredictTarget(ret.inst, t, Restrict(ret.known, Range(FeatureCols(t))),
                                Medians(data[ret.inst].rows))
        /\ \A K2 \in Variants(ret.known) :
              LET other == PredictOutcome(ret.inst, K2, ret.accepts_nan)
              IN /\ other.err = ""
                 /\ \A t \in TermSet \ DOMAIN ret.known :
                       /\ t \in DOMAIN other.result
                       /\ other.result[t] = ret.result[t]

\* predict has returned for a supplied 'Uncapped Liability' and a key outside
\* the taxonomy, on a Working Table of two rows; 'Cap On Liability' is
\* predicted.
C23_Witness ==
    /\ PredictReturned
    /\ DOMAIN ret.known = OtherKeys
    /\ ret.known["Uncapped Liability"] = 1
    /\ Len(data[ret.inst].rows) = 2
    /\ "Cap On Liability" \in DOMAIN ret.result
    /\ Variants(ret.known) # { ret.known }

=============================================================================
